---- MODULE Spec2Model ----
(***************************************************************************)
(* The chat page of friendly-medbot (client/src/pages/chat.tsx) together   *)
(* with the conversation API it talks to and the messages table            *)
(* (shared/schema.ts).                                                     *)
(*                                                                         *)
(* Strings are sequences of characters over Chars.  One browser session    *)
(* (one mounted Chat component) is modelled; the server keeps one message  *)
(* store.                                                                  *)
(***************************************************************************)
EXTENDS Integers, Sequences, FiniteSets, TLC

\* ------------------------------------------------------------- bounds
MaxSends == 1      \* sends started in one session
MaxQuicks == 2     \* quick-actions started in one session

\* ------------------------------------------------------------ strings
\* the drafts the user types: empty, blank, plain, with blanks around the
\* text and with a blank inside it
Strings ==
    { <<>>, <<" ">>, <<"a">>, <<" ", "a", " ">>, <<"a", " ", "a">> }

IsWhitespace(c) == c = " "

RECURSIVE TrimStart(_)
TrimStart(s) ==
    IF s = <<>> THEN s
    ELSE IF IsWhitespace(Head(s)) THEN TrimStart(Tail(s)) ELSE s

RECURSIVE TrimEnd(_)
TrimEnd(s) ==
    IF s = <<>> THEN s
    ELSE IF IsWhitespace(s[Len(s)]) THEN TrimEnd(SubSeq(s, 1, Len(s) - 1)) ELSE s

\* String.prototype.trim
Trim(s) == TrimEnd(TrimStart(s))

\* a JavaScript string is falsy exactly when it is empty
Falsy(s) == s = <<>>

\* --------------------------------------------------------- constants
\* useState<number | null>(null): the absent conversation id.  Serial ids
\* start at 1, so 0 stands for null (both are falsy in `!conversationId`).
Null == 0

QuickActionTags == {"symptoms", "medications", "wellness", "emergency"}

\* the quick-action buttons the user clicks
ClickedTags == {"symptoms", "emergency"}

\* Date.now() is far above every serial id of the messages table
EpochBase == 1000

RemoveAt(s, i) == SubSeq(s, 1, i - 1) \o SubSeq(s, i + 1, Len(s))

VARIABLES
    mounted,         \* the mount effect has run
    conversationId,  \* useState conversationId
    messageInput,    \* useState messageInput (the draft)
    isTyping,        \* useState isTyping
    createStatus,    \* createConversationMutation: idle, pending, success, error
    createReqs,      \* POST /api/conversations requests issued so far
    sends,           \* in-flight sendMessageMutation runs, each with its POST
    quicks,          \* in-flight quickActionMutation runs
    nSends,          \* sends started
    nQuicks,         \* quick-actions started
    query,           \* the messages query of the cache: data, hasData, isInvalidated
    fetch,           \* GET .../messages of the query: stage, payload
    toast,           \* description of the notice the last step showed, "" if none
    conversations,   \* server: rows of the conversations table
    store,           \* server: rows of the messages table, in insertion order
    submitted        \* the last step was a run of handleSendMessage

vars == <<mounted, conversationId, messageInput, isTyping, createStatus,
          createReqs, sends, quicks, nSends, nQuicks, query, fetch, toast,
          conversations, store, submitted>>

\* what the page holds and has in flight (toast and submitted record what
\* the last step did, they are not kept by the page)
clientState == <<conversationId, messageInput, isTyping, createStatus,
                 createReqs, sends, quicks, nSends, nQuicks, query, fetch>>

serverState == <<conversations, store>>

\* ------------------------------------------------------------- schema
\* a row of the messages table: serial id, defaultNow timestamp (a logical
\* clock that ticks with every insert), isTyping default false
MessageRow(id, conv, role, content) ==
    [id |-> id, conversationId |-> conv, role |-> role, content |-> content,
     timestamp |-> id, isTyping |-> FALSE]

\* faulty variant: the new row is put first
InsertMessageFirst(rows, conv, role, content) ==
    <<MessageRow(Len(rows) + 1, conv, role, content)>> \o rows

\* insert into messages: the next serial id, appended
InsertMessage(rows, conv, role, content) ==
    Append(rows, MessageRow(Len(rows) + 1, conv, role, content))

\* ------------------------------------------------------- server (API)
\* listMessages: the conversation's rows in ascending timestamp order
ListMessages(rows, conv) ==
    SelectSeq(rows, LAMBDA m : m.conversationId = conv)

\* Response Generator: reply text for a user message
GenerateReply(content) == <<"r">> \o content

\* quickAction: the canned reply of a recognised tag
QuickActionContent(action) == <<action>>

\* ------------------------------------------------------ client views
\* const { data: messages = [] } = useQuery(...)
Displayed == IF query.hasData THEN query.data ELSE <<>>

\* sendMessageMutation.isPending / quickActionMutation.isPending
SendIsPending == Len(sends) > 0
QuickIsPending == Len(quicks) > 0

\* a send whose mutationFn threw "No conversation": its onError runs in the
\* same task, before any other event is handled
ThrowPending == \E i \in 1..Len(sends) : sends[i].stage = "threw"

Init ==
    /\ mounted = FALSE
    /\ conversationId = Null
    /\ messageInput = <<>>
    /\ isTyping = FALSE
    /\ createStatus = "idle"
    /\ createReqs = 0
    /\ sends = <<>>
    /\ quicks = <<>>
    /\ nSends = 0
    /\ nQuicks = 0
    /\ query = [data |-> <<>>, hasData |-> FALSE, isInvalidated |-> FALSE]
    /\ fetch = [stage |-> "idle", payload |-> <<>>]
    /\ toast = ""
    /\ conversations = 0
    /\ store = <<>>
    /\ submitted = FALSE


\* ------------------------------------------------- createConversation
\* useEffect(() => { if (!conversationId) createConversationMutation.mutate() }, [])
Mount ==
    /\ ~ThrowPending
    /\ ~mounted
    /\ mounted' = TRUE
    /\ IF conversationId = Null
       THEN /\ createStatus' = "pending"
            /\ createReqs' = createReqs + 1
       ELSE UNCHANGED <<createStatus, createReqs>>
    /\ submitted' = FALSE
    /\ toast' = ""
    /\ UNCHANGED <<conversationId, messageInput, isTyping, sends, quicks,
                   nSends, nQuicks, query, fetch, conversations, store>>

\* POST /api/conversations answered with the new row; onSuccess stores its
\* id, which enables the messages query: its first fetch starts
CreateConversationSuccess ==
    /\ ~ThrowPending
    /\ createStatus = "pending"
    /\ conversations' = conversations + 1
    /\ conversationId' = conversations + 1
    /\ createStatus' = "success"
    /\ fetch' = [stage |-> "sent", payload |-> <<>>]
    /\ submitted' = FALSE
    /\ toast' = ""
    /\ UNCHANGED <<mounted, messageInput, isTyping, createReqs, sends, quicks,
                   nSends, nQuicks, query, store>>

\* faulty variant: the failed request is issued again
CreateConversationErrorRetries ==
    /\ ~ThrowPending
    /\ createStatus = "pending"
    /\ createReqs' = createReqs + 1
    /\ toast' = "Failed to start conversation. Please refresh the page."
    /\ submitted' = FALSE
    /\ UNCHANGED <<mounted, conversationId, messageInput, isTyping,
                   createStatus, sends, quicks, nSends, nQuicks, query, fetch,
                   conversations, store>>

\* the request failed: onError shows a notice, nothing is issued again
CreateConversationError ==
    /\ ~ThrowPending
    /\ createStatus = "pending"
    /\ createStatus' = "error"
    /\ toast' = "Failed to start conversation. Please refresh the page."
    /\ submitted' = FALSE
    /\ UNCHANGED <<mounted, conversationId, messageInput, isTyping, createReqs,
                   sends, quicks, nSends, nQuicks, query, fetch, conversations,
                   store>>

\* -------------------------------------------------------- the draft
\* <Textarea onChange={e => setMessageInput(e.target.value)}
\*           disabled={sendMessageMutation.isPending} />
TextareaDisabled == SendIsPending

SetMessageInput(s) ==
    /\ ~ThrowPending
    /\ mounted
    /\ ~TextareaDisabled
    /\ nSends < MaxSends
    /\ s # messageInput
    /\ messageInput' = s
    /\ submitted' = FALSE
    /\ toast' = ""
    /\ UNCHANGED <<mounted, conversationId, isTyping, createStatus, createReqs,
                   sends, quicks, nSends, nQuicks, query, fetch, conversations, store>>

\* ------------------------------------------------------------- send
\* faulty variant: the draft is tested untrimmed
SendBlockedUntrimmed == Falsy(messageInput) \/ SendIsPending

\* if (!messageInput.trim() || sendMessageMutation.isPending) return;
SendBlocked == Falsy(Trim(messageInput)) \/ SendIsPending

\* sendMessageMutation.mutate(content): onMutate, then mutationFn, which
\* throws without a request when no conversation id is held
SendMutate(content) ==
    /\ isTyping' = TRUE
    /\ sends' = Append(sends,
                  [content |-> content,
                   conv |-> conversationId,
                   stage |-> IF conversationId = Null THEN "threw" ELSE "sent",
                   userMsgId |-> 0,
                   asstMsgId |-> 0,
                   draftAtSend |-> messageInput,
                   listAtSend |-> Displayed])
    /\ nSends' = nSends + 1

HandleSendMessage ==
    IF SendBlocked
    THEN UNCHANGED <<isTyping, sends, nSends>>
    ELSE SendMutate(Trim(messageInput))

\* <Button onClick={handleSendMessage}
\*         disabled={!messageInput.trim() || sendMessageMutation.isPending} />
SendButtonDisabled == Falsy(Trim(messageInput)) \/ SendIsPending

ClickSend ==
    /\ ~ThrowPending
    /\ mounted
    /\ ~SendButtonDisabled
    /\ nSends < MaxSends
    /\ HandleSendMessage
    /\ submitted' = TRUE
    /\ toast' = ""
    /\ UNCHANGED <<mounted, conversationId, messageInput, createStatus,
                   createReqs, quicks, nQuicks, query, fetch, conversations, store>>

\* handleKeyDown: Enter without Shift submits; any other key does nothing here
HandleKeyDown(key, shiftKey) ==
    /\ ~ThrowPending
    /\ mounted
    /\ ~TextareaDisabled
    /\ nSends < MaxSends
    /\ IF key = "Enter" /\ ~shiftKey
       THEN /\ HandleSendMessage
            /\ submitted' = TRUE
       ELSE /\ UNCHANGED <<isTyping, sends, nSends>>
            /\ submitted' = FALSE
    /\ toast' = ""
    /\ UNCHANGED <<mounted, conversationId, messageInput, createStatus,
                   createReqs, quicks, nQuicks, query, fetch, conversations, store>>

\* ------------------------------------------------------ the messages query
\* queryClient.invalidateQueries({ queryKey }): the query is marked
\* invalidated and, being active, re-fetched (TanStack Query, Query.fetch
\* with cancelRefetch).  A fetch already running is cancelled and started
\* again only when the query holds data; a first fetch still running is kept
\* as it is, and its result clears the mark.
InvalidatedQuery == [query EXCEPT !.isInvalidated = TRUE]

RefetchAfterInvalidate ==
    IF fetch.stage # "idle" /\ ~query.hasData
    THEN fetch
    ELSE [stage |-> "sent", payload |-> <<>>]

\* queryClient.setQueryData(queryKey, updater): the cache entry is replaced;
\* a running fetch goes on
SetQueryData(data) == [data |-> data, hasData |-> TRUE, isInvalidated |-> FALSE]

\* GET /api/conversations/:id/messages handled by the server
ServerListMessages ==
    /\ ~ThrowPending
    /\ fetch.stage = "sent"
    /\ fetch' = [stage |-> "responded",
                 payload |-> ListMessages(store, conversationId)]
    /\ submitted' = FALSE
    /\ toast' = ""
    /\ UNCHANGED <<mounted, conversationId, messageInput, isTyping,
                   createStatus, createReqs, sends, quicks, nSends, nQuicks,
                   query, conversations, store>>

\* the response arrives: the cache entry becomes the server's list
FetchSuccess ==
    /\ ~ThrowPending
    /\ fetch.stage = "responded"
    /\ query' = [data |-> fetch.payload, hasData |-> TRUE, isInvalidated |-> FALSE]
    /\ fetch' = [stage |-> "idle", payload |-> <<>>]
    /\ submitted' = FALSE
    /\ toast' = ""
    /\ UNCHANGED <<mounted, conversationId, messageInput, isTyping,
                   createStatus, createReqs, sends, quicks, nSends, nQuicks,
                   conversations, store>>

\* the request fails: the cache entry keeps what it held
FetchError ==
    /\ ~ThrowPending
    /\ fetch.stage \in {"sent", "responded"}
    /\ fetch' = [stage |-> "idle", payload |-> <<>>]
    /\ submitted' = FALSE
    /\ toast' = ""
    /\ UNCHANGED <<mounted, conversationId, messageInput, isTyping,
                   createStatus, createReqs, sends, quicks, nSends, nQuicks,
                   query, conversations, store>>

\* ---------------------------------------------- postMessage on the server
PostAccepted(req) ==
    /\ ~Falsy(Trim(req.content))
    /\ req.conv \in 1..conversations

\* the user-role message is persisted
ServerPostInsertUser(i) ==
    /\ ~ThrowPending
    /\ sends[i].stage = "sent"
    /\ PostAccepted(sends[i])
    /\ store' = InsertMessage(store, sends[i].conv, "user", sends[i].content)
    /\ sends' = [sends EXCEPT ![i].stage = "userStored",
                              ![i].userMsgId = Len(store')]
    /\ submitted' = FALSE
    /\ toast' = ""
    /\ UNCHANGED <<mounted, conversationId, messageInput, isTyping,
                   createStatus, createReqs, quicks, nSends, nQuicks, query,
                   fetch, conversations>>

\* the reply is generated and persisted as an assistant-role message
ServerPostInsertAssistant(i) ==
    /\ ~ThrowPending
    /\ sends[i].stage = "userStored"
    /\ store' = InsertMessage(store, sends[i].conv, "assistant",
                              GenerateReply(sends[i].content))
    /\ sends' = [sends EXCEPT ![i].stage = "replied",
                              ![i].asstMsgId = Len(store')]
    /\ submitted' = FALSE
    /\ toast' = ""
    /\ UNCHANGED <<mounted, conversationId, messageInput, isTyping,
                   createStatus, createReqs, quicks, nSends, nQuicks, query,
                   fetch, conversations>>

\* ValidationError or NotFound: nothing is persisted
ServerPostReject(i) ==
    /\ ~ThrowPending
    /\ sends[i].stage = "sent"
    /\ ~PostAccepted(sends[i])
    /\ sends' = [sends EXCEPT ![i].stage = "failed"]
    /\ submitted' = FALSE
    /\ toast' = ""
    /\ UNCHANGED <<mounted, conversationId, messageInput, isTyping,
                   createStatus, createReqs, quicks, nSends, nQuicks, query,
                   fetch, conversations, store>>

\* StorageError before the user message, UpstreamError after it
ServerPostFail(i) ==
    /\ ~ThrowPending
    /\ sends[i].stage \in {"sent", "userStored"}
    /\ sends' = [sends EXCEPT ![i].stage = "failed"]
    /\ submitted' = FALSE
    /\ toast' = ""
    /\ UNCHANGED <<mounted, conversationId, messageInput, isTyping,
                   createStatus, createReqs, quicks, nSends, nQuicks, query,
                   fetch, conversations, store>>

\* ------------------------------------------- sendMessageMutation settles
\* onSuccess: invalidateQueries, setMessageInput(""), setIsTyping(false)
SendOnSuccess ==
    /\ query' = InvalidatedQuery
    /\ fetch' = RefetchAfterInvalidate
    /\ messageInput' = <<>>
    /\ isTyping' = FALSE
    /\ toast' = ""

\* faulty variant: the failure clears the draft as a success does
SendOnErrorClearsDraft(message) ==
    /\ isTyping' = FALSE
    /\ toast' = message
    /\ messageInput' = <<>>
    /\ UNCHANGED <<query, fetch>>

\* onError: setIsTyping(false), toast(error.message); the message is "No
\* conversation" when mutationFn threw, the request's error otherwise
SendOnError(message) ==
    /\ isTyping' = FALSE
    /\ toast' = message
    /\ UNCHANGED <<query, fetch, messageInput>>

SendSuccess(i) ==
    /\ ~ThrowPending
    /\ sends[i].stage = "replied"
    /\ SendOnSuccess
    /\ sends' = RemoveAt(sends, i)
    /\ submitted' = FALSE
    /\ UNCHANGED <<mounted, conversationId, createStatus, createReqs, quicks,
                   nSends, nQuicks, conversations, store>>

SendError(i) ==
    /\ sends[i].stage \in {"failed", "threw"}
    /\ ThrowPending => sends[i].stage = "threw"
    /\ SendOnError(IF sends[i].stage = "threw" THEN "No conversation"
                   ELSE "Failed to send message")
    /\ sends' = RemoveAt(sends, i)
    /\ submitted' = FALSE
    /\ UNCHANGED <<mounted, conversationId, createStatus, createReqs, quicks,
                   nSends, nQuicks, conversations, store>>

\* ----------------------------------------------------- quick actions
\* faulty variant: the quick-action buttons stay enabled
QuickButtonNeverDisabled == FALSE

\* <Button onClick={() => handleQuickAction(action.action)}
\*         disabled={quickActionMutation.isPending} />
QuickButtonDisabled == QuickIsPending

\* handleQuickAction: quickActionMutation.mutate(action); onMutate
HandleQuickAction(action) ==
    /\ ~ThrowPending
    /\ mounted
    /\ ~QuickButtonDisabled
    /\ nQuicks < MaxQuicks
    /\ isTyping' = TRUE
    /\ quicks' = Append(quicks, [action |-> action])
    /\ nQuicks' = nQuicks + 1
    /\ submitted' = FALSE
    /\ toast' = ""
    /\ UNCHANGED <<mounted, conversationId, messageInput, createStatus,
                   createReqs, sends, nSends, query, fetch, conversations, store>>

DateNow == EpochBase + nQuicks

FakeAssistantMessage(content) ==
    [id |-> DateNow, conversationId |-> conversationId, role |-> "assistant",
     content |-> content, timestamp |-> DateNow, isTyping |-> FALSE]

\* faulty variant: the cached list is replaced by the reply alone
QuickOnSuccessDropsOld(data) ==
    /\ IF conversationId # Null
       THEN query' = SetQueryData(<<FakeAssistantMessage(data)>>)
       ELSE UNCHANGED query
    /\ isTyping' = FALSE
    /\ toast' = ""

\* onSuccess: with a conversation id the reply is appended to the cached
\* list; setIsTyping(false)
QuickOnSuccess(data) ==
    /\ IF conversationId # Null
       THEN query' = SetQueryData(Append(Displayed, FakeAssistantMessage(data)))
       ELSE UNCHANGED query
    /\ isTyping' = FALSE
    /\ toast' = ""

\* faulty variant: the failure leaves the typing flag set
QuickOnErrorKeepsTyping ==
    /\ toast' = "Failed to get quick action response"
    /\ UNCHANGED <<query, isTyping>>

\* onError: setIsTyping(false), toast(...)
QuickOnError ==
    /\ isTyping' = FALSE
    /\ toast' = "Failed to get quick action response"
    /\ UNCHANGED query

\* POST /api/quick-actions answers a recognised tag with its content
QuickSuccess(i) ==
    /\ ~ThrowPending
    /\ quicks[i].action \in QuickActionTags
    /\ QuickOnSuccess(QuickActionContent(quicks[i].action))
    /\ quicks' = RemoveAt(quicks, i)
    /\ submitted' = FALSE
    /\ UNCHANGED <<mounted, conversationId, messageInput, createStatus,
                   createReqs, sends, nSends, nQuicks, fetch, conversations,
                   store>>

QuickError(i) ==
    /\ ~ThrowPending
    /\ QuickOnError
    /\ quicks' = RemoveAt(quicks, i)
    /\ submitted' = FALSE
    /\ UNCHANGED <<mounted, conversationId, messageInput, createStatus,
                   createReqs, sends, nSends, nQuicks, fetch, conversations,
                   store>>

\* ------------------------------------------------------ specification
Keys == {"Enter", "a"}

Next ==
    \/ Mount
    \/ CreateConversationSuccess
    \/ CreateConversationError
    \/ \E s \in Strings : SetMessageInput(s)
    \/ ClickSend
    \/ \E k \in Keys, sh \in BOOLEAN : HandleKeyDown(k, sh)
    \/ \E a \in ClickedTags : HandleQuickAction(a)
    \/ ServerListMessages
    \/ FetchSuccess
    \/ FetchError
    \/ \E i \in 1..Len(sends) : ServerPostInsertUser(i)
    \/ \E i \in 1..Len(sends) : ServerPostInsertAssistant(i)
    \/ \E i \in 1..Len(sends) : ServerPostFail(i)
    \/ \E i \in 1..Len(sends) : SendSuccess(i)
    \/ \E i \in 1..Len(sends) : SendError(i)
    \/ \E i \in 1..Len(quicks) : QuickSuccess(i)
    \/ \E i \in 1..Len(quicks) : QuickError(i)

Spec == Init /\ [][Next]_vars

\* every issued request is eventually answered, and every answer handled
FairSpec ==
    /\ Spec
    /\ WF_vars(\E i \in 1..Len(sends) :
                  \/ ServerPostInsertUser(i)
                  \/ ServerPostInsertAssistant(i)
                  \/ ServerPostFail(i))
    /\ WF_vars(\E i \in 1..Len(sends) : SendSuccess(i) \/ SendError(i))
    /\ WF_vars(\E i \in 1..Len(quicks) : QuickSuccess(i) \/ QuickError(i))

\* ------------------------------------------- the API under two callers
\* two postMessage calls are in flight on the server; no page is mounted
PostCall(content, conv) ==
    [content |-> content, conv |-> conv, stage |-> "sent", userMsgId |-> 0,
     asstMsgId |-> 0, draftAtSend |-> <<>>, listAtSend |-> <<>>]

ServerInit ==
    /\ mounted = FALSE
    /\ conversationId = Null
    /\ messageInput = <<>>
    /\ isTyping = FALSE
    /\ createStatus = "idle"
    /\ createReqs = 0
    /\ \E c1 \in Strings, c2 \in Strings, v1 \in 1..2, v2 \in 1..2 :
          sends = <<PostCall(c1, v1), PostCall(c2, v2)>>
    /\ quicks = <<>>
    /\ nSends = 0
    /\ nQuicks = 0
    /\ query = [data |-> <<>>, hasData |-> FALSE, isInvalidated |-> FALSE]
    /\ fetch = [stage |-> "idle", payload |-> <<>>]
    /\ toast = ""
    /\ conversations = 1
    /\ store = <<>>
    /\ submitted = FALSE

ServerNext ==
    \/ \E i \in 1..Len(sends) : ServerPostInsertUser(i)
    \/ \E i \in 1..Len(sends) : ServerPostInsertAssistant(i)
    \/ \E i \in 1..Len(sends) : ServerPostReject(i)
    \/ \E i \in 1..Len(sends) : ServerPostFail(i)

ServerSpec == ServerInit /\ [][ServerNext]_vars

\* ============================================================ claims
\* steps, recognised by what they change
SendStartedStep == Len(sends') > Len(sends)
SendFailedStep == Len(sends') < Len(sends) /\ toast' # ""
SendSucceededStep == Len(sends') < Len(sends) /\ toast' = ""
QuickSucceededStep == Len(quicks') < Len(quicks) /\ toast' = ""
ListArrivedStep ==
    /\ fetch.stage = "responded"
    /\ fetch'.stage = "idle"
    /\ query' = [data |-> fetch.payload, hasData |-> TRUE, isInvalidated |-> FALSE]

Contains(list, m) == \E k \in 1..Len(list) : list[k] = m

\* the rows of the sends whose success the page has been told of: every
\* assistant row but the one of a send still in flight, with the user row
\* stored just before it
DeliveredReplies ==
    {k \in 1..Len(store) :
        /\ store[k].role = "assistant"
        /\ \A i \in 1..Len(sends) : sends[i].asstMsgId # k}

UserThenReply(list, k) ==
    \E p \in 1..Len(list), q \in 1..Len(list) :
        /\ p < q
        /\ list[p] = store[k - 1]
        /\ list[q] = store[k]

\* C1: whenever a send or a quick-action is in flight, isTyping is true.
C1_TypingWhilePending == (SendIsPending \/ QuickIsPending) => isTyping

C3_Original ==
    [][ SendFailedStep =>
          \E i \in 1..Len(sends) :
              /\ sends' = RemoveAt(sends, i)
              /\ ~isTyping'
              /\ toast' # ""
              /\ messageInput' = sends[i].draftAtSend
              /\ Displayed' = sends[i].listAtSend
      ]_vars

\* C3 as amended: when a send fails, isTyping is false, an error is shown,
\* the draft is what it was when the send was started, and the failure
\* leaves the displayed list as it was just before it.
C3_FailureKeepsDraft ==
    [][ SendFailedStep =>
          \E i \in 1..Len(sends) :
              /\ sends' = RemoveAt(sends, i)
              /\ ~isTyping'
              /\ toast' # ""
              /\ messageInput' = sends[i].draftAtSend
              /\ messageInput' = messageInput
              /\ query' = query
              /\ fetch' = fetch
      ]_vars

C3_Witness ==
    /\ toast = "Failed to send message"
    /\ ~Falsy(Trim(messageInput))
    /\ ~isTyping
    /\ Displayed # <<>>

\* C4: a successful send clears the draft and invalidates the list, and the
\* server list that then replaces the displayed one holds, for every send
\* that has succeeded, its user message followed by its reply.
C4_SendRefreshesList ==
    [][ /\ SendSucceededStep => messageInput' = <<>> /\ query'.isInvalidated
        /\ ListArrivedStep =>
              \A k \in DeliveredReplies : UserThenReply(Displayed', k)
      ]_vars

\* C5 as stated: every successful quick-action appends one assistant
\* message with the returned content to the displayed list, keeps the
\* earlier entries and starts no fetch.
C5_Original ==
    [][ QuickSucceededStep =>
          \E i \in 1..Len(quicks) :
              /\ quicks' = RemoveAt(quicks, i)
              /\ Len(Displayed') = Len(Displayed) + 1
              /\ SubSeq(Displayed', 1, Len(Displayed)) = Displayed
              /\ Displayed'[Len(Displayed')].role = "assistant"
              /\ Displayed'[Len(Displayed')].content =
                    QuickActionContent(quicks[i].action)
              /\ fetch' = fetch
      ]_vars

\* C5 as amended: a successful quick-action whose response arrives while a
\* conversation id is held appends one assistant message with the returned
\* content, keeps the earlier entries and starts no fetch; one that arrives
\* while no id is held leaves the displayed list as it was.
C5_AppendWhenConversation ==
    [][ QuickSucceededStep =>
          \E i \in 1..Len(quicks) :
              /\ quicks' = RemoveAt(quicks, i)
              /\ fetch' = fetch
              /\ IF conversationId # Null
                 THEN /\ Len(Displayed') = Len(Displayed) + 1
                      /\ SubSeq(Displayed', 1, Len(Displayed)) = Displayed
                      /\ Displayed'[Len(Displayed')].role = "assistant"
                      /\ Displayed'[Len(Displayed')].content =
                            QuickActionContent(quicks[i].action)
                 ELSE /\ query' = query
                      /\ Displayed' = Displayed
      ]_vars

C5_Witness ==
    /\ Len(Displayed) >= 2
    /\ Displayed[Len(Displayed)].id > EpochBase
    /\ Displayed[1].id < EpochBase
    /\ ~QuickIsPending

\* C6: createConversation is issued once, on mount, and never again; once
\* stored the id never changes; after a failure an error has been shown and
\* the id stays unset for the rest of the session.
C6_CreateOnce ==
    [][ /\ createReqs' <= 1
        /\ createReqs' # createReqs =>
              ~mounted /\ mounted' /\ conversationId = Null
        /\ (~mounted /\ mounted' /\ conversationId = Null) =>
              createReqs' = createReqs + 1
        /\ conversationId # Null => conversationId' = conversationId
        /\ (createStatus = "pending" /\ createStatus' = "success") =>
              conversationId' # Null
        /\ (createStatus = "pending" /\ createStatus' = "error") =>
              toast' # ""
        /\ createStatus = "error" =>
              /\ createStatus' = "error"
              /\ conversationId' = Null
              /\ createReqs' = createReqs
      ]_vars

C6_Witness ==
    /\ createStatus = "error"
    /\ conversationId = Null
    /\ nQuicks > 0
    /\ nSends > 0
    /\ toast = ""

C8_PairsInOrder ==
    (/\ Len(sends) = 2
     /\ sends[1].stage = "replied"
     /\ sends[2].stage = "replied"
     /\ sends[1].conv = sends[2].conv)
    => LET list == ListMessages(store, sends[1].conv)
       IN /\ Len(list) = 4
          /\ Cardinality({k \in 1..4 : list[k].role = "user"}) = 2
          /\ Cardinality({k \in 1..4 : list[k].role = "assistant"}) = 2
          /\ \A i \in 1..2 :
                \E p \in 1..4, q \in 1..4 :
                   /\ p < q
                   /\ list[p].id = sends[i].userMsgId
                   /\ list[p].role = "user"
                   /\ list[p].content = sends[i].content
                   /\ list[q].id = sends[i].asstMsgId
                   /\ list[q].role = "assistant"

\* both calls completed, the second call's user message stored between the
\* first call's two messages
C8_Witness ==
    /\ Len(sends) = 2
    /\ sends[1].stage = "replied"
    /\ sends[2].stage = "replied"
    /\ sends[1].conv = sends[2].conv
    /\ sends[1].userMsgId < sends[2].userMsgId
    /\ sends[2].userMsgId < sends[1].asstMsgId

\* C9: a message once displayed stays displayed.
C9_NeverRemoved ==
    [][ \A k \in 1..Len(Displayed) : Contains(Displayed', Displayed[k]) ]_vars

\* C10: isTyping is false whenever nothing is in flight, and, every request
\* being answered, isTyping always becomes false again.
C10_TypingCleared ==
    /\ [](~SendIsPending /\ ~QuickIsPending => ~isTyping)
    /\ (isTyping ~> ~isTyping)

C10_Witness ==
    /\ ~isTyping
    /\ ~SendIsPending
    /\ ~QuickIsPending
    /\ nSends > 0
    /\ nQuicks > 0
    /\ toast # ""

====
